---- MODULE Spec2Model ----
(***************************************************************************)
(* Model of ehsankolivand/convertor: the pdf2vector core (MarkdownChunker, *)
(* ChromaDBStore) as state machines.  Strings are sequences of one-        *)
(* character strings, so that len(), concatenation, regular expressions    *)
(* and str.strip() are computed character by character.                    *)
(***************************************************************************)
EXTENDS Integers, Sequences, FiniteSets, TLC

VARIABLES
    collection,   \* ChromaDBStore.collection: the set of stored entries
    last,         \* the last ChromaDBStore call: its arguments and its outcome
    chunker,      \* MarkdownChunker: [min_chunk_size, max_chunk_size]
    call,         \* the last MarkdownChunker call: its arguments and its result
    environ,      \* os.environ: the API keys of the process environment
    generator,    \* the EmbeddingGenerator object: api_key, session
    client,       \* the ClaudeClient object: api_key, session
    http,         \* the HTTP traffic of the last remote call: posts, attempts
    api,          \* the last remote call: its arguments and its outcome
    app,          \* PdfMarkdownApp: its fields and the state of its widgets
    tasks,        \* the tasks submitted to PdfMarkdownApp.executor, in order
    worker,       \* the worker thread of the executor: its task and position
    conversion    \* the last convert_pdf_to_markdown call: argument and outcome

storeVars == <<collection, last>>
chunkerVars == <<chunker, call>>
remoteVars == <<environ, generator, client, http, api>>
uiVars == <<app, tasks, worker, conversion>>
vars == <<storeVars, chunkerVars, remoteVars, uiVars>>

(***************************************************************************)
(* Bounds of the model.                                                    *)
(***************************************************************************)
MaxEntries == 3      \* entries the index may hold
MaxK == 2            \* largest explicit k of a query (the default k is added)
EmbeddingDim == 3    \* dimension D of the embedding vectors

(***************************************************************************)
(* Strings.                                                                *)
(***************************************************************************)
NL == "\n"
Whitespace == {" ", NL, "\t"}
Digits == {"0", "1", "2", "3", "4", "5", "6", "7", "8", "9"}

DigitChar(d) ==
    CASE d = 0 -> "0" [] d = 1 -> "1" [] d = 2 -> "2" [] d = 3 -> "3"
      [] d = 4 -> "4" [] d = 5 -> "5" [] d = 6 -> "6" [] d = 7 -> "7"
      [] d = 8 -> "8" [] d = 9 -> "9"

\* str(n) of a non-negative integer, as the f-string of _generate_id formats it
RECURSIVE ToDecimal(_)
ToDecimal(n) ==
    IF n < 10 THEN <<DigitChar(n)>>
    ELSE ToDecimal(n \div 10) \o <<DigitChar(n % 10)>>

\* the half-open slice s[i:j] of Python, on 1-based positions i..j-1
Slice(s, i, j) == IF j <= i THEN <<>> ELSE SubSeq(s, i, j - 1)

\* the first position from i on whose character is not in S, or Len(s) + 1
FirstNotIn(s, i, S) ==
    LET stops == {x \in i..Len(s) : s[x] \notin S}
    IN IF stops = {} THEN Len(s) + 1
       ELSE CHOOSE x \in stops : \A y \in stops : x <= y

\* s has the characters of w from position i on
HasAt(s, i, w) ==
    /\ i + Len(w) - 1 <= Len(s)
    /\ \A x \in 1..Len(w) : s[i + x - 1] = w[x]

SetMin(S) == CHOOSE x \in S : \A y \in S : x <= y
SetMax(S) == CHOOSE x \in S : \A y \in S : x >= y

\* str.strip(): leading and trailing whitespace removed
Strip(s) ==
    LET keep == {x \in 1..Len(s) : s[x] \notin Whitespace}
    IN IF keep = {} THEN <<>> ELSE Slice(s, SetMin(keep), SetMax(keep) + 1)

RECURSIVE SumOver(_, _)
SumOver(f, S) ==
    IF S = {} THEN 0
    ELSE LET x == CHOOSE y \in S : TRUE IN f[x] + SumOver(f, S \ {x})

(***************************************************************************)
(* The embedding provider behind ChromaDBStore.embedding_generator.        *)
(* embed_text is called by upsert and query but is not defined by the      *)
(* EmbeddingGenerator of embeddings.py; it is modelled from the            *)
(* deterministic hash embedding of the specification (variant A): every    *)
(* whitespace-separated word is hashed, and byte values of the hash are    *)
(* scattered into positions (hash + j) mod D.  Normalisation is left out:  *)
(* cosine similarity does not depend on the length of the vectors.         *)
(***************************************************************************)
CharCode(c) ==
    CASE c = "a" -> 1 [] c = "b" -> 2 [] c = "f" -> 3 [] OTHER -> 5

\* str.split(): the words of a text, split on runs of whitespace
RECURSIVE Words(_)
Words(s) ==
    IF s = <<>> THEN <<>>
    ELSE IF s[1] \in Whitespace THEN Words(Tail(s))
    ELSE LET stops == {i \in 1..Len(s) : s[i] \in Whitespace}
             e == IF stops = {} THEN Len(s) + 1
                  ELSE CHOOSE i \in stops : \A j \in stops : i <= j
         IN <<Slice(s, 1, e)>> \o Words(Slice(s, e, Len(s) + 1))

RECURSIVE WordHash(_)
WordHash(w) ==
    IF w = <<>> THEN 7 ELSE (31 * WordHash(Tail(w)) + CharCode(w[1])) % 251

HashBytes == 2

WordVector(w) ==
    [d \in 1..EmbeddingDim |->
        SumOver([j \in 0..(HashBytes - 1) |->
                    IF (WordHash(w) + j) % EmbeddingDim = d - 1
                    THEN 1 + ((WordHash(w) \div (j + 1)) % 4) ELSE 0],
                0..(HashBytes - 1))]

embed_text(text) ==
    LET ws == Words(text)
    IN [d \in 1..EmbeddingDim |->
           SumOver([i \in 1..Len(ws) |-> WordVector(ws[i])[d]], 1..Len(ws))]

Dot(u, v) == SumOver([d \in 1..EmbeddingDim |-> u[d] * v[d]], 1..EmbeddingDim)

\* cosine similarity of a to q is at least that of b to q; the vectors have
\* non-negative components, so the comparison is made on the squares
CosineGE(a, b, q) ==
    Dot(a, q) * Dot(a, q) * Dot(b, b) >= Dot(b, q) * Dot(b, q) * Dot(a, a)

(***************************************************************************)
(* ChromaDBStore                                                           *)
(***************************************************************************)
Filenames == {<<"f">>, <<"b", "f">>}
DocTexts == {<<(<<"a">>)>>, <<(<<"a", "b">>)>>, <<(<<"a", " ", "b">>), (<<"a">>)>>}
Questions == {<<"a">>, <<"b">>, <<"b", " ", "a", "b">>}

\* a Chunk as chunk_text builds it: text and {filename, chunk_index, chunk_size}
MkChunk(text, filename, idx) ==
    [text |-> text,
     metadata |-> [filename |-> filename, chunk_index |-> idx,
                   chunk_size |-> Len(text)]]

\* the chunks of one document, as process_pdf hands them to upsert: the
\* chunk_index of a chunk is its position in the document, from 0
DocChunks(filename, texts) ==
    [i \in 1..Len(texts) |-> MkChunk(texts[i], filename, i - 1)]

Batches == {DocChunks(f, ts) : f \in Filenames, ts \in DocTexts}

\* hashlib.sha256(...).hexdigest(), taken as injective on the hashed string
sha256(content) == <<"sha256", content>>

\* a wrong id: the chunk_index is left out of the hashed string
GenerateIdNoIndex(chunk) ==
    sha256(chunk.text \o chunk.metadata.filename)

\* a wrong id: a serial number taken from the size of the collection
GenerateIdSerial(chunk) ==
    sha256(chunk.text \o chunk.metadata.filename
           \o ToDecimal(Cardinality(collection)))

\* ChromaDBStore._generate_id: the hash of text, filename and chunk_index,
\* concatenated with no separator
_generate_id(chunk) ==
    sha256(chunk.text \o chunk.metadata.filename
           \o ToDecimal(chunk.metadata.chunk_index))

Entry(chunk, embedding) ==
    [id |-> _generate_id(chunk), document |-> chunk.text,
     metadata |-> chunk.metadata, embedding |-> embedding]

\* chromadb Collection.upsert: an entry with the id of a new entry is replaced
CollectionUpsert(coll, entries) ==
    {e \in coll : \A i \in 1..Len(entries) : entries[i].id # e.id}
        \cup {entries[i] : i \in 1..Len(entries)}

\* chromadb rejects a batch that names one id twice (DuplicateIDError)
DuplicateIds(entries) ==
    \E i, j \in 1..Len(entries) : i # j /\ entries[i].id = entries[j].id

NoCall == [op |-> "none"]

\* an upsert that embeds the filename of a chunk instead of its text
UpsertEmbeddingFilename(chunks, failAt) ==
    LET entries == [i \in 1..Len(chunks) |->
                       Entry(chunks[i], embed_text(chunks[i].metadata.filename))]
        raised == failAt > 0 \/ DuplicateIds(entries)
        after == IF raised THEN collection
                 ELSE CollectionUpsert(collection, entries)
    IN /\ Cardinality(after) <= MaxEntries
       /\ collection' = after
       /\ last' = [op |-> "upsert", chunks |-> chunks,
                   ids |-> [i \in 1..Len(chunks) |-> entries[i].id],
                   embedFailed |-> failAt > 0, failAt |-> failAt,
                   raised |-> raised, before |-> collection]
       /\ UNCHANGED <<chunkerVars, remoteVars, uiVars>>

\* a wrong upsert: every chunk is written as soon as it is embedded, so the
\* chunks before the failing one are stored when the provider raises
UpsertChunkByChunk(chunks, failAt) ==
    LET entries == [i \in 1..Len(chunks) |->
                       Entry(chunks[i], embed_text(chunks[i].text))]
        raised == failAt > 0 \/ DuplicateIds(entries)
        after == IF failAt > 0
                 THEN CollectionUpsert(collection, SubSeq(entries, 1, failAt - 1))
                 ELSE IF raised THEN collection
                 ELSE CollectionUpsert(collection, entries)
    IN /\ Cardinality(after) <= MaxEntries
       /\ collection' = after
       /\ last' = [op |-> "upsert", chunks |-> chunks,
                   ids |-> [i \in 1..Len(chunks) |-> entries[i].id],
                   embedFailed |-> failAt > 0, failAt |-> failAt,
                   raised |-> raised, before |-> collection]
       /\ UNCHANGED <<chunkerVars, remoteVars, uiVars>>

\* ChromaDBStore.upsert(chunks).  failAt > 0: the embedding provider raises
\* on that chunk, inside the loop; the error is logged and raised again, and
\* collection.upsert is not reached.
Upsert(chunks, failAt) ==
    LET entries == [i \in 1..Len(chunks) |->
                       Entry(chunks[i], embed_text(chunks[i].text))]
        raised == failAt > 0 \/ DuplicateIds(entries)
        after == IF raised THEN collection
                 ELSE CollectionUpsert(collection, entries)
    IN /\ Cardinality(after) <= MaxEntries
       /\ collection' = after
       /\ last' = [op |-> "upsert", chunks |-> chunks,
                   ids |-> [i \in 1..Len(chunks) |-> entries[i].id],
                   embedFailed |-> failAt > 0, failAt |-> failAt,
                   raised |-> raised, before |-> collection]
       /\ UNCHANGED <<chunkerVars, remoteVars, uiVars>>

Min(a, b) == IF a <= b THEN a ELSE b

\* chromadb Collection.query(query_embeddings=[q], n_results=k) on a cosine
\* space: the min(k, count) nearest entries, nearest first.  Entries at the
\* same distance come in an order the library does not fix.
CollectionQuery(coll, q, k) ==
    LET n == Min(k, Cardinality(coll))
    IN {r \in [1..n -> coll] :
          /\ \A i, j \in 1..n : i # j => r[i] # r[j]
          /\ \A i, j \in 1..n : i < j => CosineGE(r[i].embedding, r[j].embedding, q)
          /\ \A e \in coll : (\A i \in 1..n : r[i] # e) =>
                 \A i \in 1..n : CosineGE(r[i].embedding, e.embedding, q)}

\* a wrong loop: the results are listed farthest first
FormatResultsReversed(r) ==
    [i \in 1..Len(r) |-> [text |-> r[Len(r) + 1 - i].document,
                          metadata |-> r[Len(r) + 1 - i].metadata]]

\* the loop of query that formats the library's answer: one {text, metadata}
\* per returned document, in the order returned
FormatResults(r) ==
    [i \in 1..Len(r) |-> [text |-> r[i].document, metadata |-> r[i].metadata]]

DefaultK == 5

QueryKs == (1..MaxK) \cup {DefaultK}

\* a wrong query: an empty index is reported as an error
QueryRaisesOnEmpty(question, k, fails) ==
    /\ \E r \in CollectionQuery(collection, embed_text(question), k) :
          last' = [op |-> "query", question |-> question, k |-> k,
                   result |-> IF fails \/ collection = {} THEN <<>>
                              ELSE FormatResults(r),
                   embedFailed |-> fails,
                   raised |-> fails \/ collection = {},
                   before |-> collection]
    /\ UNCHANGED <<collection, chunkerVars, remoteVars, uiVars>>

\* ChromaDBStore.query(question, k).  fails: the embedding provider raises on
\* the question; the error is logged and raised again.
Query(question, k, fails) ==
    /\ \E r \in CollectionQuery(collection, embed_text(question), k) :
          last' = [op |-> "query", question |-> question, k |-> k,
                   result |-> IF fails THEN <<>> ELSE FormatResults(r),
                   embedFailed |-> fails, raised |-> fails,
                   before |-> collection]
    /\ UNCHANGED <<collection, chunkerVars, remoteVars, uiVars>>

DefaultChunker == [min_chunk_size |-> 100, max_chunk_size |-> 1000]

\* Python's None where a string is expected
None == "<None>"

\* an object that has not been constructed
NotConstructed ==
    [state |-> "none", arg |-> None, api_key |-> None, session |-> "none",
     raised |-> "none"]

NoResponse == [status |-> 0, body |-> [error |-> "none"]]
NoHttp == [posts |-> <<>>, attempts |-> <<>>, response |-> NoResponse]
NoWorker == [task |-> 0, pc |-> "idle"]

\* the parts of the state a specification does not use
StoreIdle == collection = {} /\ last = NoCall
ChunkerIdle == chunker = DefaultChunker /\ call = NoCall
RemoteIdle ==
    /\ environ = [OPENAI_API_KEY |-> None, ANTHROPIC_API_KEY |-> None]
    /\ generator = NotConstructed
    /\ client = NotConstructed
    /\ http = NoHttp
    /\ api = NoCall
UiIdle ==
    app = NotConstructed /\ tasks = <<>> /\ worker = NoWorker /\ conversion = NoCall

\* the argument of embed_text: one text, or a list of texts
OneText(text) == [kind |-> "str", text |-> text, texts |-> <<>>]

EmbedArgs ==
    {OneText(q) : q \in Questions}
        \cup {[kind |-> "list", text |-> <<>>, texts |-> ts] : ts \in DocTexts \cup {<<>>}}

\* embed_text of the provider on either argument: the vector of a text, or
\* the vectors of the texts of a list, one for each and in their order
EmbedTextOf(arg) ==
    IF arg.kind = "str" THEN embed_text(arg.text)
    ELSE [i \in 1..Len(arg.texts) |-> embed_text(arg.texts[i])]

\* a direct call of the provider, as the script test_embeddings.py makes
EmbedText(arg) ==
    /\ last' = [op |-> "embed_text", arg |-> arg, result |-> EmbedTextOf(arg),
                raised |-> FALSE]
    /\ UNCHANGED <<collection, chunkerVars, remoteVars, uiVars>>

InitStore ==
    /\ collection = {}
    /\ last = NoCall
    /\ chunker = DefaultChunker
    /\ call = NoCall
    /\ RemoteIdle
    /\ UiIdle

NextStore ==
    \/ \E chunks \in Batches : \E failAt \in 0..Len(chunks) : Upsert(chunks, failAt)
    \/ \E q \in Questions : \E k \in QueryKs : \E fails \in BOOLEAN : Query(q, k, fails)
    \/ \E arg \in EmbedArgs : EmbedText(arg)

SpecStore == InitStore /\ [][NextStore]_vars

(***************************************************************************)
(* Claims about ChromaDBStore, checked under SpecStore.                    *)
(***************************************************************************)
EntriesWithId(coll, id) == {e \in coll : e.id = id}

\* chunk i of the last upsert was stored before the call, identically
StoredBefore(i) ==
    \E e \in last.before :
        /\ e.document = last.chunks[i].text
        /\ e.metadata = last.chunks[i].metadata

\* C1: an upsert of chunks that are all stored already, identical in text,
\* filename and chunk_index, leaves the number of entries as it was, and
\* exactly one entry is stored under the id of each of the chunks.
C1_UpsertIdempotent ==
    (/\ last.op = "upsert"
     /\ ~last.raised
     /\ \A i \in 1..Len(last.chunks) : StoredBefore(i))
    => /\ Cardinality(collection) = Cardinality(last.before)
       /\ \A i \in 1..Len(last.chunks) :
              Cardinality(EntriesWithId(collection, last.ids[i])) = 1

C1_Witness ==
    /\ last.op = "upsert"
    /\ ~last.raised
    /\ Len(last.chunks) = 2
    /\ \A i \in 1..Len(last.chunks) : StoredBefore(i)
    /\ Cardinality(collection) = 3

\* C2: a query that returns gives at most k results, each the {text,
\* metadata} of an entry stored in the index, in order of non-increasing
\* cosine similarity to the embedding of the question.
C2_QueryTopK ==
    (last.op = "query" /\ ~last.raised)
    => /\ Len(last.result) <= last.k
       /\ \A i \in 1..Len(last.result) :
              \E e \in collection :
                  last.result[i] = [text |-> e.document, metadata |-> e.metadata]
       /\ \A i, j \in 1..Len(last.result) :
              i < j => CosineGE(embed_text(last.result[i].text),
                                embed_text(last.result[j].text),
                                embed_text(last.question))

C2_Witness ==
    /\ last.op = "query"
    /\ ~last.raised
    /\ last.k = 2
    /\ Len(last.result) = 2
    /\ Cardinality(collection) = 3
    /\ ~CosineGE(embed_text(last.result[2].text),
                 embed_text(last.result[1].text), embed_text(last.question))

\* C3: a query for more entries than the index holds (5 by default) raises
\* no error of its own and returns every stored entry; on an empty index
\* that is the empty list.
C3_QueryFewerThanK ==
    (last.op = "query" /\ Cardinality(collection) < last.k)
    => /\ last.raised => last.embedFailed
       /\ ~last.raised =>
              /\ Len(last.result) = Cardinality(collection)
              /\ {last.result[i] : i \in 1..Len(last.result)}
                     = {[text |-> e.document, metadata |-> e.metadata] :
                           e \in collection}

C3_Witness ==
    /\ last.op = "query"
    /\ last.k = DefaultK
    /\ collection = {}
    /\ ~last.raised
    /\ last.result = <<>>

\* the ids the store has generated, each with the chunk it was generated for:
\* those of the last upsert and those of the stored entries
GeneratedIds ==
    (IF last.op = "upsert"
     THEN {<<last.chunks[i], last.ids[i]>> : i \in 1..Len(last.chunks)}
     ELSE {})
    \cup {<<[text |-> e.document, metadata |-> e.metadata], e.id>> :
             e \in collection}

SameTextAndFile(c, d) ==
    c.text = d.text /\ c.metadata.filename = d.metadata.filename

\* C4: the id depends on text, filename and chunk_index alone: two chunks
\* equal in the three have got the same id, whenever and in whatever state
\* of the store it was generated, and two chunks of the same text and
\* filename with different chunk_index have got different ids.
C4_IdFunctionOfContent ==
    \A g, h \in GeneratedIds :
        SameTextAndFile(g[1], h[1]) =>
            (g[1].metadata.chunk_index = h[1].metadata.chunk_index) = (g[2] = h[2])

C4_Witness ==
    \E g, h \in GeneratedIds :
        /\ SameTextAndFile(g[1], h[1])
        /\ g[1].metadata.chunk_index # h[1].metadata.chunk_index
        /\ g[2] # h[2]

\* C24: chunks that differ in text, filename or chunk_index have different
\* ids, so an upsert never overwrites the stored entry of a chunk that is
\* none of the chunks upserted: every entry stored before a successful
\* upsert that differs from every chunk of the batch is still stored.
C24_DistinctChunksNeverCollide ==
    (last.op = "upsert" /\ ~last.raised)
    => \A e \in last.before :
           (\A i \in 1..Len(last.chunks) :
                \/ last.chunks[i].text # e.document
                \/ last.chunks[i].metadata # e.metadata)
               => e \in collection

\* C22: an upsert in which the embedding of a chunk fails raises the error
\* and leaves the index exactly as it was before the call: no chunk of the
\* batch is stored, the chunks embedded before the failing one included.
C22_FailedUpsertWritesNothing ==
    (last.op = "upsert" /\ last.embedFailed)
    => /\ last.raised
       /\ collection = last.before

\* the second chunk of a batch fails, the first is new to a non-empty index
C22_Witness ==
    /\ last.op = "upsert"
    /\ last.failAt = 2
    /\ last.raised
    /\ collection # {}
    /\ EntriesWithId(collection, last.ids[1]) = {}

PageNumberEnd(s) ==
    IF s = <<>> \/ s[1] # NL THEN 0
    ELSE LET j == FirstNotIn(s, 2, Whitespace)
             k == FirstNotIn(s, j, Digits)
             m == FirstNotIn(s, k, Whitespace)
             nls == {x \in k..(m - 1) : s[x] = NL}
         IN IF j <= Len(s) /\ s[j] \in Digits /\ nls # {}
            THEN SetMax(nls) ELSE 0

\* re.sub(r'\n\s*\d+\s*\n', '\n', text)
RECURSIVE RemovePageNumbers(_)
RemovePageNumbers(s) ==
    IF s = <<>> THEN <<>>
    ELSE LET e == PageNumberEnd(s)
         IN IF e > 0 THEN <<NL>> \o RemovePageNumbers(Slice(s, e + 1, Len(s) + 1))
            ELSE <<s[1]>> \o RemovePageNumbers(Tail(s))

\* the backtick character, which cannot be written in a string here
Backtick == "<backtick>"

Fence == <<Backtick, Backtick, Backtick>>

\* a match of the code-fence pattern (three backticks, [\s\S]*?, three
\* backticks) at the head of s: up to the nearest closing fence
CodeFenceEnd(s) ==
    IF ~HasAt(s, 1, Fence) THEN 0
    ELSE LET closes == {j \in 4..Len(s) : HasAt(s, j, Fence)}
         IN IF closes = {} THEN 0 ELSE SetMin(closes) + 2

\* re.sub of the code-fence pattern by the empty string
RECURSIVE RemoveCodeFences(_)
RemoveCodeFences(s) ==
    IF s = <<>> THEN <<>>
    ELSE LET e == CodeFenceEnd(s)
         IN IF e > 0 THEN RemoveCodeFences(Slice(s, e + 1, Len(s) + 1))
            ELSE <<s[1]>> \o RemoveCodeFences(Tail(s))

NoNewline(s, i, j) == \A x \in i..j : s[x] # NL

\* a match of !\[.*?\]\(.*?\) at the head of s; '.' matches no newline
ImageEnd(s) ==
    IF ~HasAt(s, 1, <<"!", "[">>) THEN 0
    ELSE LET ends(j) == {k \in (j + 2)..Len(s) :
                            s[k] = ")" /\ NoNewline(s, j + 2, k - 1)}
             mids == {j \in 3..Len(s) :
                         /\ HasAt(s, j, <<"]", "(">>)
                         /\ NoNewline(s, 3, j - 1)
                         /\ ends(j) # {}}
         IN IF mids = {} THEN 0 ELSE SetMin(ends(SetMin(mids)))

\* re.sub(r'!\[.*?\]\(.*?\)', '', text)
RECURSIVE RemoveImages(_)
RemoveImages(s) ==
    IF s = <<>> THEN <<>>
    ELSE LET e == ImageEnd(s)
         IN IF e > 0 THEN RemoveImages(Slice(s, e + 1, Len(s) + 1))
            ELSE <<s[1]>> \o RemoveImages(Tail(s))

\* the printable ASCII characters outside the class of the URL pattern,
\* [a-zA-Z] | [0-9] | [$-_@.&+] | [!*\\(\\),]: the range $-_ holds every
\* character from the dollar sign to the underscore
NotUrlChars == Whitespace \cup {"#", Backtick, "\"", "{", "|", "}", "~"}

\* a match of http[s]?://(?:...)+ at the head of s: the longest run of
\* characters of the class after the scheme, which must not be empty
UrlEnd(s) ==
    LET p == IF HasAt(s, 1, <<"h", "t", "t", "p", "s", ":", "/", "/">>) THEN 9
             ELSE IF HasAt(s, 1, <<"h", "t", "t", "p", ":", "/", "/">>) THEN 8
             ELSE 0
    IN IF p = 0 \/ p > Len(s) \/ s[p] \in NotUrlChars THEN 0
       ELSE FirstNotIn(s, p, {s[x] : x \in 1..Len(s)} \ NotUrlChars) - 1

\* re.sub(r'http[s]?://(?:...)+', '', text)
RECURSIVE RemoveUrls(_)
RemoveUrls(s) ==
    IF s = <<>> THEN <<>>
    ELSE LET e == UrlEnd(s)
         IN IF e > 0 THEN RemoveUrls(Slice(s, e + 1, Len(s) + 1))
            ELSE <<s[1]>> \o RemoveUrls(Tail(s))

\* re.sub(r'\s+', ' ', text)
RECURSIVE CollapseWhitespace(_)
CollapseWhitespace(s) ==
    IF s = <<>> THEN <<>>
    ELSE IF s[1] \in Whitespace
         THEN <<" ">> \o CollapseWhitespace(
                            Slice(s, FirstNotIn(s, 1, Whitespace), Len(s) + 1))
         ELSE <<s[1]>> \o CollapseWhitespace(Tail(s))

\* MarkdownChunker.clean_text
clean_text(text) ==
    Strip(CollapseWhitespace(RemoveUrls(RemoveImages(
        RemoveCodeFences(RemovePageNumbers(text))))))

\* the positions where (?=^#+\s) matches under re.MULTILINE: the start of a
\* line that begins with one or more '#' followed by a whitespace character
HeadingStarts(s) ==
    {p \in 1..Len(s) :
        /\ p = 1 \/ s[p - 1] = NL
        /\ s[p] = "#"
        /\ LET q == FirstNotIn(s, p, {"#"})
           IN q <= Len(s) /\ s[q] \in Whitespace}

\* the pieces of s cut at the positions of cuts, in order; the first piece
\* is what stands before the first cut (empty when a cut is at the start)
RECURSIVE CutAt(_, _, _)
CutAt(s, from, cuts) ==
    IF cuts = {} THEN <<Slice(s, from, Len(s) + 1)>>
    ELSE LET c == SetMin(cuts)
         IN <<Slice(s, from, c)>> \o CutAt(s, c, cuts \ {c})

\* [chunk.strip() for chunk in chunks if chunk.strip()]
RECURSIVE StripNonEmpty(_)
StripNonEmpty(pieces) ==
    IF pieces = <<>> THEN <<>>
    ELSE IF Strip(pieces[1]) = <<>> THEN StripNonEmpty(Tail(pieces))
         ELSE <<Strip(pieces[1])>> \o StripNonEmpty(Tail(pieces))

\* MarkdownChunker.split_by_headings
split_by_headings(text) == StripNonEmpty(CutAt(text, 1, HeadingStarts(text)))

\* a match of \n\s*\n at the head of s: the position of its last character
BlankLineEnd(s) ==
    IF s = <<>> \/ s[1] # NL THEN 0
    ELSE LET m == FirstNotIn(s, 2, Whitespace)
             nls == {x \in 2..(m - 1) : s[x] = NL}
         IN IF nls = {} THEN 0 ELSE SetMax(nls)

\* re.split(r'\n\s*\n', text): piece is the text read since the last match
RECURSIVE SplitBlankLines(_, _)
SplitBlankLines(s, piece) ==
    IF s = <<>> THEN <<piece>>
    ELSE LET e == BlankLineEnd(s)
         IN IF e > 0
            THEN <<piece>> \o SplitBlankLines(Slice(s, e + 1, Len(s) + 1), <<>>)
            ELSE SplitBlankLines(Tail(s), Append(piece, s[1]))

\* MarkdownChunker.split_by_paragraphs
split_by_paragraphs(text) == StripNonEmpty(SplitBlankLines(text, <<>>))

Separator == <<NL, NL>>

\* the loop of merge_small_chunks: merged is the output so far, current the
\* running buffer
RECURSIVE MergeLoop(_, _, _)
MergeLoop(chunks, merged, current) ==
    IF chunks = <<>>
    THEN IF current # <<>> THEN Append(merged, current) ELSE merged
    ELSE LET chunk == chunks[1]
         IN IF Len(current) + Len(chunk) <= chunker.max_chunk_size
            THEN MergeLoop(Tail(chunks), merged,
                           IF current # <<>> THEN current \o Separator \o chunk
                           ELSE chunk)
            ELSE MergeLoop(Tail(chunks),
                           IF current # <<>> THEN Append(merged, current)
                           ELSE merged,
                           chunk)

\* a wrong loop: the separator is counted when the sizes are compared
RECURSIVE MergeLoopCountingSeparator(_, _, _)
MergeLoopCountingSeparator(chunks, merged, current) ==
    IF chunks = <<>>
    THEN IF current # <<>> THEN Append(merged, current) ELSE merged
    ELSE LET chunk == chunks[1]
             joined == IF current # <<>> THEN current \o Separator \o chunk
                       ELSE chunk
         IN IF Len(joined) <= chunker.max_chunk_size
            THEN MergeLoopCountingSeparator(Tail(chunks), merged, joined)
            ELSE MergeLoopCountingSeparator(
                     Tail(chunks),
                     IF current # <<>> THEN Append(merged, current) ELSE merged,
                     chunk)

MergeCountingSeparator(chunks) == MergeLoopCountingSeparator(chunks, <<>>, <<>>)

\* a wrong merge: a chunk that stays below min_chunk_size is dropped
MergeDroppingUndersized(chunks) ==
    LET merged == MergeLoop(chunks, <<>>, <<>>)
    IN SelectSeq(merged, LAMBDA c : Len(c) >= chunker.min_chunk_size)

\* a wrong merge: the buffer is not flushed after the loop
MergeWithoutFlush(chunks) ==
    LET merged == MergeLoop(chunks, <<>>, <<>>)
    IN SubSeq(merged, 1, Len(merged) - 1)

\* MarkdownChunker.merge_small_chunks
merge_small_chunks(chunks) == MergeLoop(chunks, <<>>, <<>>)

\* a wrong chunk_text: the chunks are numbered from 1
ChunkTextOneBased(text, filename) ==
    LET cleaned == clean_text(text)
        byHeadings == split_by_headings(cleaned)
        chunks == IF \E i \in 1..Len(byHeadings) :
                         Len(byHeadings[i]) < chunker.min_chunk_size
                  THEN split_by_paragraphs(cleaned)
                  ELSE byHeadings
        merged == merge_small_chunks(chunks)
    IN [i \in 1..Len(merged) |-> MkChunk(merged[i], filename, i)]

\* MarkdownChunker.chunk_text, with metadata = {"filename": filename}
chunk_text(text, filename) ==
    LET cleaned == clean_text(text)
        byHeadings == split_by_headings(cleaned)
        chunks == IF \E i \in 1..Len(byHeadings) :
                         Len(byHeadings[i]) < chunker.min_chunk_size
                  THEN split_by_paragraphs(cleaned)
                  ELSE byHeadings
        merged == merge_small_chunks(chunks)
    IN [i \in 1..Len(merged) |-> MkChunk(merged[i], filename, i - 1)]

(***************************************************************************)
(* The inputs of the chunker: texts built from at most MaxLines lines, and *)
(* lists of at most MaxFrags fragments.                                    *)
(***************************************************************************)
MaxLines == 3
MaxFrags == 5

BlankLine == <<>>
NumberLine == <<"1">>
PageLine == <<"P", "a", "g", "e", " ", "1">>
BodyLine == <<"a", "b">>
UrlLine == <<"h", "t", "t", "p", ":", "/", "/", "x">>
ImageLine == <<"!", "[", "i", "]", "(", "p", ")">>
FencedBlock == Fence \o <<NL, "c", NL>> \o Fence
Section == <<"#", " ", "H", NL>> \o BodyLine
SubSection == <<"#", "#", " ", "S", NL>> \o BodyLine

Lines ==
    {BlankLine, NumberLine, PageLine, BodyLine, UrlLine, ImageLine,
     FencedBlock, Section, SubSection}

\* "\n".join(lines)
RECURSIVE JoinLines(_)
JoinLines(lines) ==
    IF lines = <<>> THEN <<>>
    ELSE IF Len(lines) = 1 THEN lines[1]
    ELSE lines[1] \o <<NL>> \o JoinLines(Tail(lines))

Texts == {JoinLines(ls) : ls \in UNION {[1..n -> Lines] : n \in 0..MaxLines}}

Fragments ==
    {<<"a">>, <<"b", "b">>, <<"c", "c", "c">>, <<"d", "d", "d", "d", "d">>}

FragmentLists == UNION {[1..n -> Fragments] : n \in 0..MaxFrags}

ChunkerArgs ==
    {[kind |-> "text", text |-> t] : t \in Texts}
        \cup {[kind |-> "chunks", chunks |-> fl] : fl \in FragmentLists}

\* MarkdownChunker(min_chunk_size, max_chunk_size), at a small scale
ChunkerConfigs ==
    {[min_chunk_size |-> 2, max_chunk_size |-> 4],
     [min_chunk_size |-> 5, max_chunk_size |-> 10]}

TestFilename == <<"t">>

Returns(op, result) ==
    /\ call' = [op |-> op, arg |-> call.arg, result |-> result]
    /\ UNCHANGED <<storeVars, chunker, remoteVars, uiVars>>

CleanText ==
    /\ call.op = "none" /\ call.arg.kind = "text"
    /\ Returns("clean_text", clean_text(call.arg.text))

SplitByHeadings ==
    /\ call.op = "none" /\ call.arg.kind = "text"
    /\ Returns("split_by_headings", split_by_headings(call.arg.text))

SplitByParagraphs ==
    /\ call.op = "none" /\ call.arg.kind = "text"
    /\ Returns("split_by_paragraphs", split_by_paragraphs(call.arg.text))

MergeSmallChunks ==
    /\ call.op = "none" /\ call.arg.kind = "chunks"
    /\ Returns("merge_small_chunks", merge_small_chunks(call.arg.chunks))

ChunkText ==
    /\ call.op = "none" /\ call.arg.kind = "text"
    /\ Returns("chunk_text", chunk_text(call.arg.text, TestFilename))

InitChunker ==
    /\ collection = {}
    /\ last = NoCall
    /\ chunker \in ChunkerConfigs
    /\ call \in {[op |-> "none", arg |-> a] : a \in ChunkerArgs}
    /\ RemoteIdle
    /\ UiIdle

NextChunker ==
    \/ CleanText
    \/ SplitByHeadings
    \/ SplitByParagraphs
    \/ MergeSmallChunks
    \/ ChunkText

SpecChunker == InitChunker /\ [][NextChunker]_vars

(***************************************************************************)
(* Claims about MarkdownChunker, checked under SpecChunker.                *)
(***************************************************************************)
Contains(s, w) == \E i \in 1..Len(s) : HasAt(s, i, w)

\* C5 as stated: a text shorter than min_chunk_size gives exactly one chunk,
\* whose text is the cleaned text.
C5_ShortTextOneChunk ==
    (call.op = "chunk_text" /\ Len(call.arg.text) < chunker.min_chunk_size)
    => /\ Len(call.result) = 1
       /\ call.result[1].text = clean_text(call.arg.text)

\* C5, amended: a text shorter than min_chunk_size whose cleaned text is not
\* empty gives exactly one chunk, whose text is the cleaned text.
C5_ShortNonEmptyTextOneChunk ==
    (/\ call.op = "chunk_text"
     /\ Len(call.arg.text) < chunker.min_chunk_size
     /\ clean_text(call.arg.text) # <<>>)
    => /\ Len(call.result) = 1
       /\ call.result[1].text = clean_text(call.arg.text)

C5_Witness ==
    /\ call.op = "chunk_text"
    /\ Len(call.arg.text) < chunker.min_chunk_size
    /\ Contains(call.arg.text, <<NL>>)
    /\ Len(call.result) = 1
    /\ call.result[1].text = BodyLine \o <<" ">> \o NumberLine

\* the starts of the lines that are a top-level heading: one '#', then a
\* whitespace character
TopLevelStarts(s) ==
    {p \in 1..Len(s) :
        /\ p = 1 \/ s[p - 1] = NL
        /\ s[p] = "#"
        /\ p + 1 <= Len(s) /\ s[p + 1] \in Whitespace}

\* the sections of a text: what each top-level heading line introduces
SectionsOf(text) == StripNonEmpty(CutAt(text, 1, TopLevelStarts(text)))

\* C6: a document of n >= 2 sections, each introduced by a top-level
\* heading and at least min_chunk_size long, no two adjacent ones fitting
\* together within max_chunk_size, is chunked into n chunks, the i-th
\* holding the text of the i-th section.
C6_SectionsBecomeChunks ==
    LET sections == SectionsOf(call.arg.text)
        n == Len(sections)
    IN (/\ call.op = "chunk_text"
        /\ 1 \in TopLevelStarts(call.arg.text)
        /\ n >= 2
        /\ \A i \in 1..n : Len(clean_text(sections[i])) >= chunker.min_chunk_size
        /\ \A i \in 1..(n - 1) :
              Len(clean_text(sections[i])) + Len(clean_text(sections[i + 1]))
                  > chunker.max_chunk_size)
       => /\ Len(call.result) = n
          /\ \A i \in 1..n : call.result[i].text = clean_text(sections[i])

\* C7: split_by_headings starts a new fragment only at a top-level heading
\* line; a sub-heading line stays inside the enclosing fragment.
C7_SplitOnlyAtTopLevel ==
    call.op = "split_by_headings" => call.result = SectionsOf(call.arg.text)

UrlScheme == <<"h", "t", "t", "p", ":", "/", "/">>

\* C8: the cleaned text holds no page label, no URL, no code fence and no
\* image markup, and it keeps the heading words and the body words.
C8_CleanRemovesArtifacts ==
    call.op = "clean_text"
    => /\ ~Contains(call.result, PageLine)
       /\ ~Contains(call.result, UrlScheme)
       /\ ~Contains(call.result, Fence)
       /\ ~Contains(call.result, <<"!", "[">>)
       /\ Contains(call.arg.text, BodyLine) => Contains(call.result, BodyLine)
       /\ Contains(call.arg.text, <<"#", " ", "H">>)
              => Contains(call.result, <<"H">>)
       /\ Contains(call.arg.text, <<"#", "#", " ", "S">>)
              => Contains(call.result, <<"S">>)

\* the list [s1, s2, L, s3, s4] of C9: s1 with s2 and s3 with s4 fit within
\* max_chunk_size, L alone does not
IsShortShortLongShortShort(chunks) ==
    /\ Len(chunks) = 5
    /\ Len(chunks[1]) + Len(chunks[2]) <= chunker.max_chunk_size
    /\ Len(chunks[3]) > chunker.max_chunk_size
    /\ Len(chunks[4]) + Len(chunks[5]) <= chunker.max_chunk_size

\* C9: merge_small_chunks of [s1, s2, L, s3, s4] is the three chunks
\* s1 joined with s2, L, and s3 joined with s4, in this order.
C9_MergeAroundLongChunk ==
    (call.op = "merge_small_chunks" /\ IsShortShortLongShortShort(call.arg.chunks))
    => call.result = <<call.arg.chunks[1] \o Separator \o call.arg.chunks[2],
                       call.arg.chunks[3],
                       call.arg.chunks[4] \o Separator \o call.arg.chunks[5]>>

C9_Witness ==
    /\ call.op = "merge_small_chunks"
    /\ IsShortShortLongShortShort(call.arg.chunks)
    /\ Len(call.arg.chunks[1]) + Len(call.arg.chunks[2]) = chunker.max_chunk_size
    /\ Len(call.result) = 3

\* C10: a fragment that is at least min_chunk_size long is a chunk of its
\* own in the result, joined with no neighbour.
C10_MergeOnlyUndersized ==
    call.op = "merge_small_chunks"
    => \A i \in 1..Len(call.arg.chunks) :
           Len(call.arg.chunks[i]) >= chunker.min_chunk_size
               => \E j \in 1..Len(call.result) :
                      call.result[j] = call.arg.chunks[i]

\* C20: when every fragment is at most max_chunk_size long, every chunk
\* merge_small_chunks returns is at most max_chunk_size long.
C20_MergeRespectsMax ==
    (/\ call.op = "merge_small_chunks"
     /\ \A i \in 1..Len(call.arg.chunks) :
            Len(call.arg.chunks[i]) <= chunker.max_chunk_size)
    => \A j \in 1..Len(call.result) :
           Len(call.result[j]) <= chunker.max_chunk_size

\* "\n\n".join(chunks)
RECURSIVE JoinBlankLine(_)
JoinBlankLine(chunks) ==
    IF chunks = <<>> THEN <<>>
    ELSE IF Len(chunks) = 1 THEN chunks[1]
    ELSE chunks[1] \o Separator \o JoinBlankLine(Tail(chunks))

\* C23: for a list of non-empty fragments, the chunks merge_small_chunks
\* returns, joined with the blank-line separator, are the fragments joined
\* with the same separator, and the result is empty only for an empty list.
C23_MergePreservesText ==
    (/\ call.op = "merge_small_chunks"
     /\ \A i \in 1..Len(call.arg.chunks) : call.arg.chunks[i] # <<>>)
    => /\ JoinBlankLine(call.result) = JoinBlankLine(call.arg.chunks)
       /\ (call.result = <<>>) => (call.arg.chunks = <<>>)

\* some fragments were joined and some were kept apart
C23_Witness ==
    /\ call.op = "merge_small_chunks"
    /\ Len(call.arg.chunks) >= 4
    /\ Len(call.result) >= 2
    /\ Len(call.result) < Len(call.arg.chunks)
    /\ JoinBlankLine(call.result) = JoinBlankLine(call.arg.chunks)

\* C21: in the result of chunk_text the chunk at position i (from 0) has
\* chunk_index = i, and the chunk_size of every chunk is the length of its
\* text.
C21_ChunksLabelledByPosition ==
    call.op = "chunk_text"
    => \A i \in 1..Len(call.result) :
           /\ call.result[i].metadata.chunk_index = i - 1
           /\ call.result[i].metadata.chunk_size = Len(call.result[i].text)

C21_Witness ==
    /\ call.op = "chunk_text"
    /\ Len(call.result) >= 1
    /\ call.result[1].metadata.chunk_index = 0
    /\ call.result[1].metadata.chunk_size > 2
    /\ Contains(call.arg.text, <<"#">>)

(***************************************************************************)
(* EmbeddingGenerator and ClaudeClient: the clients of the remote services *)
(***************************************************************************)
MaxTexts == 2     \* texts of one generate_embeddings call
MaxItems == 2     \* items of the data list of a response body
MaxHistory == 2   \* turns of a conversation history

\* the truth value of a string or None: bool(v) is False
Falsy(v) == v \in {None, ""}

\* the Python expression  a or b
Or(a, b) == IF Falsy(a) THEN b ELSE a

ApiKeyArgs == {None, "", "sk-arg"}
EnvValues == {None, "", "sk-env"}

\* the object after  self.api_key = api_key or os.getenv(name)  and the
\* test of it: the constructor raises before the session is created
ClientInit(api_key, env_value) ==
    LET key == Or(api_key, env_value)
    IN IF Falsy(key)
       THEN [state |-> "failed", arg |-> api_key, api_key |-> key,
             session |-> "none", raised |-> "ValueError"]
       ELSE [state |-> "ready", arg |-> api_key, api_key |-> key,
             session |-> "open", raised |-> "none"]

\* a constructor that creates the session and leaves the missing key to
\* the first request
EmbeddingGeneratorInitDeferred(api_key) ==
    [state |-> "ready", arg |-> api_key,
     api_key |-> Or(api_key, environ.OPENAI_API_KEY),
     session |-> "open", raised |-> "none"]

EmbeddingGeneratorInit(api_key) == ClientInit(api_key, environ.OPENAI_API_KEY)

ClaudeClientInit(api_key) == ClientInit(api_key, environ.ANTHROPIC_API_KEY)

\* a behaviour constructs one of the two clients and makes one call of it
NewEmbeddingGenerator ==
    /\ generator.state = "none" /\ client.state = "none"
    /\ \E api_key \in ApiKeyArgs : generator' = EmbeddingGeneratorInit(api_key)
    /\ UNCHANGED <<storeVars, chunkerVars, environ, client, http, api, uiVars>>

NewClaudeClient ==
    /\ generator.state = "none" /\ client.state = "none"
    /\ \E api_key \in ApiKeyArgs : client' = ClaudeClientInit(api_key)
    /\ UNCHANGED <<storeVars, chunkerVars, environ, generator, http, api, uiVars>>

(***************************************************************************)
(* The session: requests.Session with HTTPAdapter(max_retries=Retry(...))  *)
(* mounted on https://.  urllib3 retries a request whose connection could  *)
(* not be made, whatever its method; it retries a read error or a status   *)
(* of status_forcelist only for the methods of Retry.allowed_methods,      *)
(* whose default does not contain POST.  Each retry decrements total, and  *)
(* the request fails when total would fall below zero.                     *)
(***************************************************************************)
RetryTotal == 3
StatusForcelist == {429, 500, 502, 503, 504}
AllowedMethods == {"HEAD", "GET", "PUT", "DELETE", "OPTIONS", "TRACE"}

\* what one attempt of a request can meet
Outcomes ==
    {[kind |-> "response", status |-> st] : st \in {200, 400, 429, 503}}
        \cup {[kind |-> "connect_error", status |-> 0],
              [kind |-> "read_error", status |-> 0]}

\* what the successive attempts of one request would meet
Networks == [1..(RetryTotal + 1) -> Outcomes]

\* Retry.is_retry(method, status_code)
is_retry(method, status) == method \in AllowedMethods /\ status \in StatusForcelist

\* HTTPConnectionPool.urlopen under the Retry object: the attempts made and
\* the response returned or the exception raised (as requests names it)
RECURSIVE urlopen(_, _, _, _)
urlopen(method, total, network, attempts) ==
    LET outcome == network[1]
        made == Append(attempts, outcome)
        again == urlopen(method, total - 1, Tail(network), made)
    IN CASE outcome.kind = "connect_error" ->
              IF total > 0 THEN again
              ELSE [attempts |-> made, raised |-> "ConnectionError", status |-> 0]
         [] outcome.kind = "read_error" ->
              IF method \in AllowedMethods /\ total > 0 THEN again
              ELSE [attempts |-> made, raised |-> "ReadTimeout", status |-> 0]
         [] outcome.kind = "response" ->
              IF is_retry(method, outcome.status)
              THEN IF total > 0 THEN again
                   ELSE [attempts |-> made, raised |-> "RetryError", status |-> 0]
              ELSE [attempts |-> made, raised |-> "none", status |-> outcome.status]

\* session.post(...): every way one POST can go
Posts == {urlopen("POST", RetryTotal, network, <<>>) : network \in Networks}

\* the exceptions of requests.exceptions, all RequestException
IsRequestException(e) ==
    e \in {"ConnectionError", "ReadTimeout", "RetryError", "HTTPError"}

\* response.raise_for_status()
raise_for_status(status) ==
    IF status >= 400 /\ status < 600 THEN "HTTPError" ELSE "none"

(***************************************************************************)
(* EmbeddingGenerator.generate_embedding and generate_embeddings           *)
(***************************************************************************)
RemoteTexts == {<<"a">>, <<"b">>}
TextLists == UNION {[1..n -> RemoteTexts] : n \in 0..MaxTexts}

\* the JSON bodies a response can carry: a data list of items with or
\* without an embedding, or an object without data
EmbeddingBodies ==
    LET items == {[embedding |-> v] : v \in {<<1, 0>>, <<0, 1>>}}
                     \cup {[object |-> "embedding"]}
    IN {[data |-> d] : d \in UNION {[1..n -> items] : n \in 0..MaxItems}}
           \cup {[error |-> "invalid_request_error"]}

\* the request of one session.post of the embeddings endpoint
EmbeddingRequest(input) ==
    [url |-> "https://api.openai.com/v1/embeddings",
     headers |-> [Authorization |-> <<"Bearer ", generator.api_key>>,
                  Content_Type |-> "application/json"],
     json |-> [model |-> "text-embedding-3-small", input |-> input]]

\* the exception of the try block after session.post returned or raised:
\* raise_for_status, then the lookup  lookup(body)  in response.json()
ResponseError(post, lookup) ==
    IF post.raised # "none" THEN post.raised
    ELSE IF raise_for_status(post.status) # "none" THEN raise_for_status(post.status)
    ELSE lookup

\* except requests.exceptions.RequestException: raise EmbeddingError(...);
\* any other exception leaves the method as it is
Converted(error, typed) == IF IsRequestException(error) THEN typed ELSE error

\* response.json()["data"][0]["embedding"]
FirstEmbeddingError(body) ==
    IF "data" \notin DOMAIN body THEN "KeyError"
    ELSE IF body.data = <<>> THEN "IndexError"
    ELSE IF "embedding" \notin DOMAIN body.data[1] THEN "KeyError"
    ELSE "none"

\* [item["embedding"] for item in response.json()["data"]]
AllEmbeddingsError(body) ==
    IF "data" \notin DOMAIN body THEN "KeyError"
    ELSE IF \E i \in 1..Len(body.data) : "embedding" \notin DOMAIN body.data[i]
         THEN "KeyError"
    ELSE "none"

\* the outcome of a remote call: the posts and attempts made, the response
\* received, the exception raised or the value returned
Outcome(posts, post, body, raised, value) ==
    [posts |-> posts, attempts |-> post.attempts,
     response |-> IF post.raised = "none"
                  THEN [status |-> post.status, body |-> body] ELSE NoResponse,
     raised |-> raised, returned |-> raised = "none",
     result |-> IF raised = "none" THEN value ELSE <<>>]

generate_embedding(text, post, body) ==
    LET raised == Converted(ResponseError(post, FirstEmbeddingError(body)),
                            "EmbeddingError")
    IN Outcome(<<EmbeddingRequest(text)>>, post, body, raised,
               IF raised = "none" THEN body.data[1].embedding ELSE <<>>)

\* a batch path that calls the single-text path once for each text
GenerateEmbeddingsLooping(texts, post, body) ==
    LET raised == Converted(ResponseError(post, AllEmbeddingsError(body)),
                            "EmbeddingError")
    IN Outcome([i \in 1..Len(texts) |-> EmbeddingRequest(texts[i])], post, body,
               raised,
               IF raised = "none"
               THEN [i \in 1..Len(body.data) |-> body.data[i].embedding] ELSE <<>>)

generate_embeddings(texts, post, body) ==
    LET raised == Converted(ResponseError(post, AllEmbeddingsError(body)),
                            "EmbeddingError")
    IN Outcome(<<EmbeddingRequest(texts)>>, post, body, raised,
               IF raised = "none"
               THEN [i \in 1..Len(body.data) |-> body.data[i].embedding] ELSE <<>>)

\* a remote call made and finished: the traffic and the outcome are recorded
Called(op, arg, outcome) ==
    /\ http' = [posts |-> outcome.posts, attempts |-> outcome.attempts,
                response |-> outcome.response]
    /\ api' = [op |-> op, arg |-> arg, raised |-> outcome.raised,
               returned |-> outcome.returned, result |-> outcome.result]
    /\ UNCHANGED <<storeVars, chunkerVars, environ, generator, client, uiVars>>

GenerateEmbedding ==
    /\ generator.state = "ready"
    /\ api.op = "none"
    /\ \E text \in RemoteTexts : \E post \in Posts : \E body \in EmbeddingBodies :
           Called("generate_embedding", text, generate_embedding(text, post, body))

GenerateEmbeddings ==
    /\ generator.state = "ready"
    /\ api.op = "none"
    /\ \E texts \in TextLists : \E post \in Posts : \E body \in EmbeddingBodies :
           Called("generate_embeddings", texts,
                  generate_embeddings(texts, post, body))

(***************************************************************************)
(* ClaudeClient.answer_question.  The literals of the source are kept as   *)
(* single elements of the strings they are formatted into.                 *)
(***************************************************************************)
SystemPrompt ==
    <<"You are a helpful AI assistant that answers questions based on the provided context. ",
      "Always cite your sources using the chunk information provided. ",
      "If you cannot answer the question based on the context, say so.">>

\* chunk['metadata'].get('filename', 'unknown')
MetadataFilename(chunk) ==
    IF "filename" \in DOMAIN chunk.metadata
    THEN chunk.metadata.filename ELSE <<"unknown">>

\* chunk['metadata'].get('chunk_index', '?'), formatted into a string
MetadataChunkIndex(chunk) ==
    IF "chunk_index" \in DOMAIN chunk.metadata
    THEN ToDecimal(chunk.metadata.chunk_index) ELSE <<"?">>

\* sep.join(parts)
RECURSIVE Join(_, _)
Join(parts, sep) ==
    IF parts = <<>> THEN <<>>
    ELSE IF Len(parts) = 1 THEN parts[1]
    ELSE parts[1] \o sep \o Join(Tail(parts), sep)

_format_context(chunks) ==
    Join([i \in 1..Len(chunks) |->
              <<"Source: ">> \o MetadataFilename(chunks[i]) \o <<" ">>
                  \o <<"(Chunk ">> \o MetadataChunkIndex(chunks[i]) \o <<")", NL>>
                  \o chunks[i].text \o <<NL>>],
         <<NL>>)

SystemMessage == [role |-> "system", content |-> SystemPrompt]

UserMessage(context, question) ==
    [role |-> "user",
     content |-> <<"Context:", NL>> \o context \o <<NL, NL>>
                     \o <<"Question: ">> \o question \o <<NL, NL>>
                     \o <<"Please answer the question based on the context above. ",
                          "Include source citations in your answer.">>]

\* a conversation_history argument: None, or a list of turns
NoHistory == [none |-> TRUE, turns |-> <<>>]
History(turns) == [none |-> FALSE, turns |-> turns]

\* messages built with the history after the final user turn
BuildMessagesHistoryLast(question, context_chunks, conversation_history) ==
    <<SystemMessage, UserMessage(_format_context(context_chunks), question)>>
        \o conversation_history.turns

\* the messages list of answer_question
BuildMessages(question, context_chunks, conversation_history) ==
    <<SystemMessage>>
        \o (IF ~conversation_history.none /\ conversation_history.turns # <<>>
            THEN conversation_history.turns ELSE <<>>)
        \o <<UserMessage(_format_context(context_chunks), question)>>

ClaudeRequest(api_key, messages) ==
    [url |-> "https://api.anthropic.com/v1/messages",
     headers |-> [x_api_key |-> api_key, anthropic_version |-> "2023-06-01",
                  content_type |-> "application/json"],
     json |-> [model |-> "claude-3-opus-20240229", max_tokens |-> 1000,
              messages |-> messages]]

\* result["content"][0]["text"]
AnswerError(body) ==
    IF "content" \notin DOMAIN body THEN "KeyError"
    ELSE IF body.content = <<>> THEN "IndexError"
    ELSE IF "text" \notin DOMAIN body.content[1] THEN "KeyError"
    ELSE "none"

Sources(context_chunks) ==
    [i \in 1..Len(context_chunks) |->
        [filename |-> MetadataFilename(context_chunks[i]),
         chunk_index |-> MetadataChunkIndex(context_chunks[i])]]

answer_question(question, context_chunks, conversation_history, post, body) ==
    LET messages == BuildMessages(question, context_chunks, conversation_history)
        raised == Converted(ResponseError(post, AnswerError(body)), "ClaudeError")
    IN Outcome(<<ClaudeRequest(client.api_key, messages)>>, post, body, raised,
               IF raised = "none"
               THEN <<[answer |-> body.content[1].text,
                       sources |-> Sources(context_chunks)]>>
               ELSE <<>>)

ChatQuestions == {<<"q", "?">>}
ContextChunkLists ==
    LET c(i, t) == [text |-> t, metadata |-> [filename |-> <<"d">>, chunk_index |-> i]]
    IN {<<>>, <<c(0, <<"x">>)>>, <<c(0, <<"x">>), c(1, <<"y">>)>>}
Histories ==
    LET turns == {[role |-> "user", content |-> <<"Previous question">>],
                  [role |-> "assistant", content |-> <<"Previous answer">>]}
    IN {NoHistory}
           \cup {History(t) : t \in UNION {[1..n -> turns] : n \in 0..MaxHistory}}
ClaudeBodies ==
    {[content |-> <<[text |-> <<"A">>]>>], [content |-> <<>>],
     [content |-> <<[type |-> "tool_use"]>>], [type |-> "error"]}

AnswerQuestion ==
    /\ client.state = "ready"
    /\ api.op = "none"
    /\ \E question \in ChatQuestions : \E context_chunks \in ContextChunkLists :
       \E conversation_history \in Histories :
       \E post \in Posts : \E body \in ClaudeBodies :
           Called("answer_question",
                  [question |-> question, context_chunks |-> context_chunks,
                   conversation_history |-> conversation_history],
                  answer_question(question, context_chunks, conversation_history,
                                  post, body))

InitRemote ==
    /\ StoreIdle
    /\ ChunkerIdle
    /\ environ \in [OPENAI_API_KEY : EnvValues, ANTHROPIC_API_KEY : EnvValues]
    /\ generator = NotConstructed
    /\ client = NotConstructed
    /\ http = NoHttp
    /\ api = NoCall
    /\ UiIdle

NextRemote ==
    \/ NewEmbeddingGenerator
    \/ NewClaudeClient
    \/ GenerateEmbedding
    \/ GenerateEmbeddings
    \/ AnswerQuestion

SpecRemote == InitRemote /\ [][NextRemote]_vars

(***************************************************************************)
(* Claims about the clients of the remote services, checked under          *)
(* SpecRemote.                                                             *)
(***************************************************************************)
EmbeddingOps == {"generate_embedding", "generate_embeddings"}

TransientStatus(outcome) ==
    outcome.kind = "response" /\ outcome.status \in StatusForcelist

\* the call failed: its last attempt met an error or a status that is not
\* 2xx, or the body of the response lacks the expected fields
Failed(lookup) ==
    \/ http.response = NoResponse
    \/ raise_for_status(http.response.status) # "none"
    \/ lookup # "none"

EmbeddingFailed ==
    Failed(IF api.op = "generate_embedding"
           THEN FirstEmbeddingError(http.response.body)
           ELSE AllEmbeddingsError(http.response.body))

\* C11: an embedding call that meets HTTP 429 or 5xx is retried, it makes
\* at most 3 attempts in all, and when its last attempt has failed it
\* raises EmbeddingError.
C11_TransientRetriedWithinThreeAttempts ==
    (/\ api.op \in EmbeddingOps
     /\ \E i \in 1..Len(http.attempts) : TransientStatus(http.attempts[i]))
    => /\ Len(http.attempts) <= 3
       /\ \A i \in 1..Len(http.attempts) :
              (TransientStatus(http.attempts[i]) /\ i < 3) => i < Len(http.attempts)
       /\ EmbeddingFailed => api.raised = "EmbeddingError"

\* C12: a failed generate_embedding or generate_embeddings call raises
\* EmbeddingError and returns no vector; no other exception leaves them.
C12_FailuresRaiseEmbeddingError ==
    api.op \in EmbeddingOps
    => /\ api.raised \in {"none", "EmbeddingError"}
       /\ EmbeddingFailed => (api.raised = "EmbeddingError" /\ ~api.returned)

\* C13: a client constructed with no api_key argument and no key in the
\* environment raises in its constructor and has no session; every request
\* is made by a client that has a key.
C13_MissingKeyRaisesAtConstruction ==
    /\ (generator.state # "none" /\ Falsy(generator.arg)
            /\ Falsy(environ.OPENAI_API_KEY))
           => (generator.raised = "ValueError" /\ generator.session = "none")
    /\ (client.state # "none" /\ Falsy(client.arg)
            /\ Falsy(environ.ANTHROPIC_API_KEY))
           => (client.raised = "ValueError" /\ client.session = "none")
    /\ api.op \in EmbeddingOps
           => (~Falsy(generator.api_key) /\ generator.session = "open")
    /\ api.op = "answer_question"
           => (~Falsy(client.api_key) /\ client.session = "open")

C13_Witness ==
    /\ generator.state = "failed"
    /\ generator.arg = None
    /\ environ.OPENAI_API_KEY = None
    /\ generator.session = "none"
    /\ http.posts = <<>>

\* C14: generate_embeddings makes one post, whose input is the whole list
\* of texts, and returns the embeddings of the items of the response, one
\* for each item and in their order.
C14_BatchIsOneRequest ==
    api.op = "generate_embeddings"
    => /\ Len(http.posts) = 1
       /\ http.posts[1].json.input = api.arg
       /\ api.returned
              => /\ Len(api.result) = Len(http.response.body.data)
                 /\ \A i \in 1..Len(api.result) :
                        api.result[i] = http.response.body.data[i].embedding

C14_Witness ==
    /\ api.op = "generate_embeddings"
    /\ api.returned
    /\ Len(api.arg) = 2
    /\ api.result = <<<<0, 1>>, <<1, 0>>>>

\* C19: the messages of the request of answer_question are the system
\* instruction, then the turns of the conversation history in their order,
\* then one user turn that contains the formatted context and the
\* question: len(conversation_history) + 2 messages.
C19_MessagesInOrder ==
    api.op = "answer_question"
    => LET messages == http.posts[1].json.messages
           turns == api.arg.conversation_history.turns
           final == messages[Len(messages)]
       IN /\ Len(http.posts) = 1
          /\ Len(messages) = Len(turns) + 2
          /\ messages[1] = [role |-> "system", content |-> SystemPrompt]
          /\ \A i \in 1..Len(turns) : messages[i + 1] = turns[i]
          /\ final.role = "user"
          /\ Contains(final.content, _format_context(api.arg.context_chunks))
          /\ Contains(final.content, api.arg.question)

C19_Witness ==
    /\ api.op = "answer_question"
    /\ api.returned
    /\ Len(api.arg.context_chunks) = 2
    /\ Len(api.arg.conversation_history.turns) = 2
    /\ api.arg.conversation_history.turns[1].role = "user"
    /\ api.arg.conversation_history.turns[2].role = "assistant"
    /\ Len(http.posts[1].json.messages) = 4

(***************************************************************************)
(* convert_pdf_to_markdown (src/converter.py).  A file is what the file    *)
(* system and the markitdown library answer for a path: stat is the        *)
(* outcome of Path.exists() (which raises the OSError of os.stat when it   *)
(* is not one of the errors pathlib ignores, as for a name that is too     *)
(* long), open the outcome of open(), library the outcome of               *)
(* MarkItDown.convert_stream.                                              *)
(***************************************************************************)
Paths == {<<"a.pdf">>, <<"b.pdf">>}

Files ==
    {[path |-> p, stat |-> st, open |-> o, library |-> l, text |-> t] :
        p \in Paths, st \in {"exists", "missing", "error"}, o \in {"ok", "error"},
        l \in {"empty", "no_attr", "none", "raises", "import_error"}, t \in {<<>>}}
    \cup
    {[path |-> p, stat |-> st, open |-> o, library |-> "text", text |-> t] :
        p \in Paths, st \in {"exists", "missing", "error"}, o \in {"ok", "error"},
        t \in {<<"#", " ", "T">>, <<"x">>}}

Returned(text) ==
    [kind |-> "returned", text |-> text, type |-> "none", message |-> <<>>]
Raised(type, message) ==
    [kind |-> "raised", text |-> <<>>, type |-> type, message |-> message]

\* the body of the try statement: what it returns or raises before the
\* except clauses
TryConvert(file) ==
    IF file.open = "error"
    THEN Raised("OSError", <<"[Errno 13] Permission denied: ">> \o file.path)
    ELSE CASE file.library = "import_error" ->
                  Raised("ImportError", <<"No module named 'pdfminer'">>)
           [] file.library = "raises" ->
                  Raised("Exception", <<"File conversion failed">>)
           [] file.library = "none" ->
                  Raised("ConversionError", <<"Conversion returned no result">>)
           [] file.library = "no_attr" ->
                  Raised("ConversionError",
                         <<"Conversion result missing text_content attribute">>)
           [] file.library = "empty" ->
                  Raised("ConversionError",
                         <<"Conversion completed but no text content was extracted">>)
           [] file.library = "text" -> Returned(file.text)

convert_pdf_to_markdown(file) ==
    IF file.stat = "error"
    THEN Raised("OSError", <<"[Errno 36] File name too long: ">> \o file.path)
    ELSE IF file.stat = "missing"
    THEN Raised("ConversionError", <<"File not found: ">> \o file.path)
    ELSE LET r == TryConvert(file)
         IN IF r.kind = "returned" THEN r
            ELSE IF r.type = "ImportError"
            THEN Raised("ConversionError",
                        <<"Required library not found: ">> \o r.message)
            ELSE Raised("ConversionError",
                        <<"Unexpected error during conversion: ">> \o r.message)

ConvertPdfToMarkdown ==
    /\ conversion.op = "none"
    /\ conversion' = [op |-> "convert_pdf_to_markdown", arg |-> conversion.arg,
                      outcome |-> convert_pdf_to_markdown(conversion.arg)]
    /\ UNCHANGED <<storeVars, chunkerVars, remoteVars, app, tasks, worker>>

InitConverter ==
    /\ StoreIdle
    /\ ChunkerIdle
    /\ RemoteIdle
    /\ app = NotConstructed /\ tasks = <<>> /\ worker = NoWorker
    /\ conversion \in {[op |-> "none", arg |-> f] : f \in Files}

NextConverter == ConvertPdfToMarkdown

SpecConverter == InitConverter /\ [][NextConverter]_vars

\* C16: convert_pdf_to_markdown returns a non-empty text or raises
\* ConversionError with a message; a missing file, a file that cannot be
\* read or converted and an empty extraction raise ConversionError.
C16_TextOrConversionError ==
    conversion.op = "convert_pdf_to_markdown"
    => LET file == conversion.arg
           outcome == conversion.outcome
       IN /\ \/ outcome.kind = "returned" /\ outcome.text # <<>>
             \/ /\ outcome.kind = "raised"
                /\ outcome.type = "ConversionError"
                /\ outcome.message # <<>>
          /\ (\/ file.stat # "exists"
              \/ file.open = "error"
              \/ file.library # "text") => outcome.kind = "raised"

(***************************************************************************)
(* PdfMarkdownApp (src/ui.py).  The handlers of the Tk event loop run on   *)
(* the main thread, one at a time.  A conversion task and its done         *)
(* callback update_ui run on the single worker thread of the executor;     *)
(* each Tk call of update_ui is handed to the event loop, which executes   *)
(* it between two handlers, so a handler can run between any two           *)
(* statements of update_ui.                                                *)
(***************************************************************************)
MaxTasks == 2     \* conversions submitted in one session

NoPath == <<>>    \* selected_file_path = None, or a cancelled file dialog
NoFuture == 0     \* current_future = None; a future is its position in tasks

\* the application after __init__
NewApp ==
    [selected_file_path |-> NoPath,
     current_future |-> NoFuture,
     file_label |-> <<"No file selected">>,
     convert_button |-> "disabled",
     progress_bar |-> [visible |-> FALSE, running |-> FALSE],
     text_area |-> <<>>,
     status_label |-> "Ready",
     messagebox |-> [title |-> "none", message |-> <<>>]]

\* select_file: the dialog returns a path, or nothing when it is cancelled
SelectFile ==
    /\ \E file_path \in Paths \cup {NoPath} :
           app' = IF file_path # NoPath
                  THEN [app EXCEPT !.selected_file_path = file_path,
                                   !.file_label = file_path,
                                   !.convert_button = "normal",
                                   !.status_label = "File selected. Ready to convert."]
                  ELSE app
    /\ UNCHANGED <<storeVars, chunkerVars, remoteVars, tasks, worker, conversion>>

\* the value of a task: the tuple (result, error) that conversion_task returns
NoError == [type |-> "none", message |-> <<>>]

\* convert_file: without a selected file an error dialog; otherwise the
\* widgets show the conversion, the task is submitted to the executor, the
\* future is kept in current_future and update_ui is added as its callback
\* (requested keeps the path that is selected at this moment; the task
\* itself holds no path, it reads self.selected_file_path when it runs)
ConvertFile ==
    /\ IF app.selected_file_path = NoPath
       THEN /\ app' = [app EXCEPT !.messagebox =
                          [title |-> "Error",
                           message |-> <<"Please select a PDF file first.">>]]
            /\ UNCHANGED tasks
       ELSE /\ Len(tasks) < MaxTasks
            /\ app' = [app EXCEPT !.convert_button = "disabled",
                                  !.status_label = "Converting...",
                                  !.text_area = <<>>,
                                  !.progress_bar = [visible |-> TRUE, running |-> TRUE],
                                  !.current_future = Len(tasks) + 1]
            /\ tasks' = Append(tasks, [state |-> "pending", path |-> NoPath,
                                       requested |-> app.selected_file_path,
                                       result |-> <<>>, error |-> NoError])
    /\ UNCHANGED <<storeVars, chunkerVars, remoteVars, worker, conversion>>

\* the convert button: Tk runs its command only while it is enabled
ClickConvert ==
    /\ app.convert_button = "normal"
    /\ ConvertFile

\* the <Control-r> binding: it calls convert_file whatever the button's state
PressControlR == ConvertFile

(***************************************************************************)
(* The worker thread: it takes the submitted tasks in order, runs          *)
(* conversion_task and then the done callback update_ui, statement by      *)
(* statement.                                                              *)
(***************************************************************************)
Pending == {t \in 1..Len(tasks) : tasks[t].state = "pending"}

\* the files the conversions of a session meet: behind each path a file
\* that converts, a missing file, or a path that cannot be examined
UiFiles ==
    {f \in Files : f.open = "ok" /\ f.library = "text" /\ f.text = <<"#", " ", "T">>}

\* conversion_task: (result, None), or (None, e) for any exception
conversion_task(file) ==
    LET outcome == convert_pdf_to_markdown(file)
    IN IF outcome.kind = "returned"
       THEN [result |-> outcome.text, error |-> NoError]
       ELSE [result |-> <<>>,
             error |-> [type |-> outcome.type, message |-> outcome.message]]

WorkerStep(from, to) ==
    /\ worker.pc = from
    /\ worker' = [worker EXCEPT !.pc = to]
    /\ UNCHANGED <<storeVars, chunkerVars, remoteVars, conversion>>

\* the worker takes the next task; conversion_task reads
\* self.selected_file_path when it starts to run
TaskStart ==
    /\ worker.pc = "idle"
    /\ Pending # {}
    /\ LET t == SetMin(Pending)
       IN /\ worker' = [task |-> t, pc |-> "running"]
          /\ tasks' = [tasks EXCEPT ![t].state = "running",
                                    ![t].path = app.selected_file_path]
    /\ UNCHANGED <<storeVars, chunkerVars, remoteVars, app, conversion>>

\* the converter returns or raises; the future of the task is done
TaskFinish ==
    /\ WorkerStep("running", "stop")
    /\ \E file \in UiFiles :
          /\ file.path = tasks[worker.task].path
          /\ tasks' = [tasks EXCEPT ![worker.task].state = "done",
                                    ![worker.task].result = conversion_task(file).result,
                                    ![worker.task].error = conversion_task(file).error]
    /\ UNCHANGED app

\* update_ui: self.progress_bar.stop()
ProgressStop ==
    /\ WorkerStep("stop", "grid_remove")
    /\ app' = [app EXCEPT !.progress_bar.running = FALSE]
    /\ UNCHANGED tasks

\* update_ui: self.progress_bar.grid_remove()
ProgressRemove ==
    /\ WorkerStep("grid_remove", "button")
    /\ app' = [app EXCEPT !.progress_bar.visible = FALSE]
    /\ UNCHANGED tasks

\* a callback that leaves the convert button disabled
ButtonStaysDisabled ==
    /\ WorkerStep("button",
                  IF tasks[worker.task].error = NoError THEN "insert" ELSE "status_error")
    /\ UNCHANGED <<app, tasks>>

\* update_ui: self.convert_button.config(state=tk.NORMAL), then
\* future.result() and  if error: raise error
ButtonNormal ==
    /\ WorkerStep("button",
                  IF tasks[worker.task].error = NoError THEN "insert" ELSE "status_error")
    /\ app' = [app EXCEPT !.convert_button = "normal"]
    /\ UNCHANGED tasks

\* update_ui: self.text_area.insert(tk.END, result)
InsertResult ==
    /\ WorkerStep("insert", "status_complete")
    /\ app' = [app EXCEPT !.text_area = Append(@, tasks[worker.task].result)]
    /\ UNCHANGED tasks

\* update_ui: self.status_label.config(text="Conversion complete.")
StatusComplete ==
    /\ WorkerStep("status_complete", "finally")
    /\ app' = [app EXCEPT !.status_label = "Conversion complete."]
    /\ UNCHANGED tasks

\* update_ui, except clauses: self.status_label.config(text="Error during
\* conversion.")
StatusError ==
    /\ WorkerStep("status_error", "messagebox")
    /\ app' = [app EXCEPT !.status_label = "Error during conversion."]
    /\ UNCHANGED tasks

\* update_ui, except clauses: messagebox.showerror("Conversion Error", str(e))
ShowError ==
    /\ WorkerStep("messagebox", "insert_error")
    /\ app' = [app EXCEPT !.messagebox =
                  [title |-> "Conversion Error",
                   message |-> tasks[worker.task].error.message]]
    /\ UNCHANGED tasks

\* update_ui, except clauses: self.text_area.insert(tk.END, "# Error: ...")
InsertError ==
    /\ WorkerStep("insert_error", "finally")
    /\ app' = [app EXCEPT !.text_area =
                  Append(@, <<"# Error: ">> \o tasks[worker.task].error.message)]
    /\ UNCHANGED tasks

\* update_ui, finally: self.current_future = None; the worker is free again
Finally ==
    /\ worker.pc = "finally"
    /\ worker' = NoWorker
    /\ app' = [app EXCEPT !.current_future = NoFuture]
    /\ UNCHANGED <<storeVars, chunkerVars, remoteVars, tasks, conversion>>

Worker ==
    \/ TaskStart
    \/ TaskFinish
    \/ ProgressStop
    \/ ProgressRemove
    \/ ButtonNormal
    \/ InsertResult
    \/ StatusComplete
    \/ StatusError
    \/ ShowError
    \/ InsertError
    \/ Finally

InitUI ==
    /\ StoreIdle
    /\ ChunkerIdle
    /\ RemoteIdle
    /\ app = NewApp
    /\ tasks = <<>>
    /\ worker = NoWorker
    /\ conversion = NoCall

NextUI ==
    \/ SelectFile
    \/ ClickConvert
    \/ PressControlR
    \/ TaskStart
    \/ TaskFinish
    \/ ProgressStop
    \/ ProgressRemove
    \/ ButtonNormal
    \/ InsertResult
    \/ StatusComplete
    \/ StatusError
    \/ ShowError
    \/ InsertError
    \/ Finally

SpecUI == InitUI /\ [][NextUI]_vars

\* the worker thread keeps running: a task that can start starts, a
\* converter call returns, and the callback runs to its end
SpecUIFair == SpecUI /\ WF_vars(Worker)

(***************************************************************************)
(* Claims about PdfMarkdownApp, checked under SpecUI and SpecUIFair.       *)
(***************************************************************************)
\* the tasks that were submitted and whose future is not done
Unfinished == {t \in 1..Len(tasks) : tasks[t].state # "done"}

\* C17: at most one conversion task is submitted and not finished at any
\* time, whatever the file selections, convert requests (button or
\* Control-r) and completions.
C17_AtMostOneTaskInFlight == Cardinality(Unfinished) <= 1

\* the ready state: progress stopped and hidden, convert button enabled,
\* no tracked future
Ready ==
    /\ ~app.progress_bar.running
    /\ ~app.progress_bar.visible
    /\ app.convert_button = "normal"
    /\ app.current_future = NoFuture

\* every submitted conversion has finished and its callback has ended
Quiescent == tasks # <<>> /\ Unfinished = {} /\ worker.pc = "idle"

\* the error of the last conversion is on display: in the dialog and in
\* the text area
ErrorShown ==
    LET e == tasks[Len(tasks)].error
    IN e # NoError
       => /\ app.messagebox = [title |-> "Conversion Error", message |-> e.message]
          /\ app.text_area # <<>>
          /\ app.text_area[Len(app.text_area)] = <<"# Error: ">> \o e.message

C25_ViewMatchesTask ==
    Unfinished # {}
    => /\ app.convert_button = "disabled"
       /\ app.current_future \in Unfinished

\* C26: a conversion task reads the file that was selected when the
\* conversion was requested, whatever is selected while it is queued or
\* running: the path a started task has read is the path selected at its
\* request.
C26_TaskReadsRequestedFile ==
    \A t \in 1..Len(tasks) :
        tasks[t].state \in {"running", "done"}
            => tasks[t].path = tasks[t].requested

====
